---- MODULE Spec2Model ----
(***************************************************************************)
(* Audio mosaicing: frame segmentation and per-frame analysis              *)
(* (analyzer.py), nearest-neighbour matching, the decoded-audio cache and  *)
(* the reconstruction loop (mosaicer.py), driven as main.py drives them.   *)
(*                                                                         *)
(* Audio files are modelled by their sample count (files[path]) and a      *)
(* fixed sample content SampleAt(path, i).  essentia's numeric descriptors *)
(* are external: they are replaced by a deterministic function of the      *)
(* frame's samples, and essentia's documented failures (empty or odd-sized *)
(* input to the FFT) by ExtractorFails.                                    *)
(***************************************************************************)
EXTENDS Integers, Sequences, FiniteSets, TLC

VARIABLES
    files,                  \* path -> number of samples MonoLoader decodes
    pc,                     \* position of the driver
    seg_call,               \* arguments of the last direct analyze_sound call
    seg_result,             \* what that call returned or raised
    ci,                     \* analyze_collection: loop index i
    analyses,               \* analyze_collection: list `analyses`
    df_source,              \* source table (rows in insertion order)
    df_target,              \* target table
    src_args,               \* arguments analyze_collection was called with
    tgt_args,               \* arguments analyze_target was called with
    rc_args,                \* arguments reconstruct_audio was called with
    ri,                     \* reconstruct_audio: loop index i
    generated_audio,        \* reconstruct_audio: output buffer
    selected_freesound_ids, \* reconstruct_audio: provenance list
    loaded_audio_files,     \* mosaicer.loaded_audio_files: path -> buffer
    decodes,                \* history: MonoLoader runs per path inside get_audio_file_segment
    last_call,              \* history: last get_audio_file_segment call and result
    last_write,             \* history: last assignment into generated_audio
    wcount,                 \* history: number of writes per output index
    calls_left,             \* direct get_audio_file_segment calls still allowed
    matches,                \* history: direct choose_frame_from_source_collection calls
    fails_at,               \* path -> where essentia fails on the file (-1: nowhere)
    exc                     \* exception that ended the run ("none" when none)

vars == <<files, pc, seg_call, seg_result, ci, analyses, df_source, df_target,
          src_args, tgt_args, rc_args, ri, generated_audio, selected_freesound_ids,
          loaded_audio_files, decodes, last_call, last_write, wcount,
          calls_left, matches, fails_at, exc>>

----------------------------------------------------------------------------
(* Bounds of the model *)

\* longest recording segmented by a direct analyze_sound call
MaxLen == 9
\* largest frame_size argument tried besides the documented default
MaxFrameSize == 5
\* most beat positions the beat tracker reports
MaxBeats == 3
\* longest source file of the collection
MaxSrcLen == 12
\* longest target recording of a pipeline run
MaxTgtLen == 6
\* direct get_audio_file_segment calls in one process (CacheSpec)
MaxCalls == 3
\* largest n_samples of a direct get_audio_file_segment call
MaxSegLen == 4
\* direct choose_frame_from_source_collection calls on one pair of tables
MaxMatches == 2
\* latest frame of a file on which essentia fails
MaxFailAt == 2

(* Program constants *)

\* analyzer.py line 29: beat positions are scaled by 44100
SampleRate == 44100
\* main.py line 28: default --frame_size
DefaultFrameSize == 8192
\* analyzer.py line 117: seconds of target audio in the documented example
ExampleSeconds == 4
\* mosaicer.py line 78
n_neighbours_to_find == 10

ExampleLen == ExampleSeconds * SampleRate

----------------------------------------------------------------------------
(* Python helpers *)

Min(a, b) == IF a < b THEN a ELSE b
Max(a, b) == IF a > b THEN a ELSE b

\* list(range(0, stop, step)) for step > 0, built as range builds it
RECURSIVE RangeFrom(_, _, _)
RangeFrom(cur, stop, step) ==
    IF cur >= stop THEN <<>> ELSE <<cur>> \o RangeFrom(cur + step, stop, step)

\* a range that skips its first element
PyRangeFromStep(stop, step) == RangeFrom(step, stop, step)

PyRange(stop, step) == RangeFrom(0, stop, step)

\* list(zip(xs[:-2], xs[2:])): every boundary paired with the next but one
ZipSkipping(xs) ==
    IF Len(xs) < 3 THEN <<>>
    ELSE [k \in 1..(Len(xs) - 2) |-> <<xs[k], xs[k + 2]>>]

\* list(zip(xs[:-1], xs[1:]))
ZipAdjacent(xs) ==
    IF Len(xs) < 2 THEN <<>>
    ELSE [k \in 1..(Len(xs) - 1) |-> <<xs[k], xs[k + 1]>>]

\* bounds of seq[a:b] for 0 <= a, 0 <= b on a sequence of length n (0-based, clamped)
SliceLo(n, a) == Min(a, n)
SliceHi(n, a, b) == Max(Min(b, n), Min(a, n))
SliceLen(n, a, b) == SliceHi(n, a, b) - SliceLo(n, a)

\* seq[a:b] on a TLA+ sequence (1-based storage of a 0-based buffer)
PySlice(seq, a, b) ==
    [k \in 1..SliceLen(Len(seq), a, b) |-> seq[SliceLo(Len(seq), a) + k]]

\* int(round(h / 2)): Python rounds halves to the even neighbour
PyRoundHalves(h) ==
    IF h % 2 = 0 THEN h \div 2
    ELSE LET q == (h - 1) \div 2 IN IF q % 2 = 0 THEN q ELSE q + 1

----------------------------------------------------------------------------
(* The file system and the external audio library *)

SourcePaths == {"a", "b"}
TargetPath == "t"
Paths == SourcePaths \cup {TargetPath}

\* sample i (0-based) of the file at path: fixed, non-silent content
SampleAt(path, i) ==
    LET m == CASE path = "a" -> 2 [] path = "b" -> 3 [] OTHER -> 1
    IN  ((i * m + (IF path = "b" THEN 1 ELSE 0)) % 5) + 1

\* estd.MonoLoader(filename=path)(): the whole file
Decode(path) == [k \in 1..files[path] |-> SampleAt(path, k - 1)]

\* essentia raises (RuntimeError) on an empty frame and on an odd-sized FFT input
ExtractorFails(n) == n = 0 \/ n % 2 = 1

\* BeatTrackerDegara: ascending beat times, here in half samples (1/88200 s),
\* consecutive beats more than one sample apart
MinBeatGap == 3

RECURSIVE BeatSeqs(_, _, _)
BeatSeqs(lo, hi, n) ==
    IF n = 0 THEN {<<>>}
    ELSE {<<>>} \cup
         UNION {{<<b>> \o rest : rest \in BeatSeqs(b + MinBeatGap, hi, n - 1)} :
                b \in lo..hi}

----------------------------------------------------------------------------
(* analyzer.py *)

MfccNames == <<"mfcc_0", "mfcc_1", "mfcc_2", "mfcc_3", "mfcc_4", "mfcc_5", "mfcc_6",
               "mfcc_7", "mfcc_8", "mfcc_9", "mfcc_10", "mfcc_11", "mfcc_12">>

\* the feature keys analyze_sound puts into frame_output
AnalysisColumns == {"loudness"} \cup {MfccNames[j] : j \in 1..Len(MfccNames)}

\* stand-in for essentia's Loudness / Windowing / Spectrum / MFCC chain: a
\* deterministic function of the frame's samples audio[fstart:fend]
ExtractFeatures(path, fstart, fend) ==
    LET first == SampleAt(path, fstart)
        last  == SampleAt(path, fend - 1)
    IN  [c \in AnalysisColumns |->
            IF c = "loudness" THEN first + last
            ELSE LET j == CHOOSE k \in 1..Len(MfccNames) : MfccNames[k] = c
                 IN  (first * j + last) % 3]

\* frame_size after lines 21-24
EffectiveFrameSize(frame_size, L) ==
    LET fs == IF frame_size = <<>> THEN L ELSE frame_size[1]
    IN  IF fs % 2 # 0 THEN fs + 1 ELSE fs

\* fixed-size frames that keep the trailing partial interval
FrameStartEndSamplesKeepTail(L, frame_size, sync_with_beats, beats) ==
    LET F  == EffectiveFrameSize(frame_size, L)
        xs == PyRange(L, F)
    IN  [k \in 1..Len(xs) |-> <<xs[k], xs[k] + F>>]

\* frame_start_end_samples (lines 26-35); beats are the tracker's positions
FrameStartEndSamples(L, frame_size, sync_with_beats, beats) ==
    IF sync_with_beats
    THEN ZipAdjacent([k \in 1..Len(beats) |-> PyRoundHalves(beats[k])])
    ELSE ZipAdjacent(PyRange(L, EffectiveFrameSize(frame_size, L)))

\* the dictionary built for frame number count (lines 39-58)
FrameOutput(audio_path, audio_id, count, fstart, fend) ==
    [freesound_id |-> audio_id,
     id           |-> <<audio_id, "_f", count>>,
     path         |-> audio_path,
     start_sample |-> fstart,
     end_sample   |-> fend,
     feat         |-> ExtractFeatures(audio_path, fstart, fend)]

\* analyze_sound: [exc, rows, analysis_output]; frame_size is <<>> for None,
\* <<n>> otherwise.  rows is what the call returns (nothing when it raises),
\* analysis_output the local list as the call ends.  essentia raises
\* RuntimeError in MonoLoader (fails_at = 0), on frame number fails_at, and
\* on every frame ExtractorFails rejects.
AnalyzeSound(audio_path, frame_size, audio_id, sync_with_beats, beats) ==
    LET L == files[audio_path]
    IN  IF fails_at[audio_path] = 0
        THEN [exc |-> "RuntimeError", rows |-> <<>>, analysis_output |-> <<>>]
        ELSE IF ~sync_with_beats /\ EffectiveFrameSize(frame_size, L) = 0
        THEN \* range() arg 3 must not be zero
             [exc |-> "ValueError", rows |-> <<>>, analysis_output |-> <<>>]
        ELSE LET fse == FrameStartEndSamples(L, frame_size, sync_with_beats, beats)
                 bad == {k \in 1..Len(fse) :
                            \/ k = fails_at[audio_path]
                            \/ ExtractorFails(SliceLen(L, fse[k][1], fse[k][2]))}
                 built(n) == [k \in 1..n |->
                                FrameOutput(audio_path, audio_id, k - 1,
                                            fse[k][1], fse[k][2])]
             IN  IF bad # {}
                 THEN LET first == CHOOSE k \in bad : \A j \in bad : k <= j
                      IN  [exc |-> "RuntimeError", rows |-> <<>>,
                           analysis_output |-> built(first - 1)]
                 ELSE [exc |-> "none", rows |-> built(Len(fse)),
                       analysis_output |-> built(Len(fse))]

----------------------------------------------------------------------------
(* Direct calls of analyze_sound on one recording *)

NoCall == [kind |-> "none"]

\* every file decodes and analyses without an essentia failure of its own
NoFailure == [p \in Paths |-> -1]

Idle ==
    /\ seg_call = NoCall
    /\ seg_result = NoCall
    /\ ci = 0
    /\ analyses = <<>>
    /\ df_source = <<>>
    /\ df_target = <<>>
    /\ src_args = NoCall
    /\ tgt_args = NoCall
    /\ rc_args = NoCall
    /\ ri = 0
    /\ generated_audio = <<>>
    /\ selected_freesound_ids = <<>>
    /\ loaded_audio_files = [p \in {} |-> <<>>]
    /\ decodes = [p \in Paths |-> 0]
    /\ last_call = NoCall
    /\ last_write = NoCall
    /\ wcount = <<>>
    /\ matches = <<>>
    /\ exc = "none"

SegLens == (0..MaxLen) \cup {ExampleLen}
FrameSizeArgs == {<<>>} \cup {<<n>> : n \in (1..MaxFrameSize) \cup {DefaultFrameSize}}

SegInit ==
    /\ Idle
    /\ pc = "segment"
    /\ calls_left = 0
    /\ fails_at = NoFailure
    /\ \E L \in SegLens : files = [p \in Paths |-> IF p = TargetPath THEN L ELSE 0]

AnalyzeSoundFixed ==
    /\ pc = "segment"
    /\ \E frame_size \in FrameSizeArgs :
          \* the example-length recording is cut with the default frame size or None only
          /\ files[TargetPath] <= MaxLen \/ frame_size \in {<<>>, <<DefaultFrameSize>>}
          /\ seg_call' = [kind |-> "analyze_sound", frame_size |-> frame_size,
                          sync_with_beats |-> FALSE, beats |-> <<>>]
          /\ seg_result' = AnalyzeSound(TargetPath, frame_size, TargetPath, FALSE, <<>>)
    /\ pc' = "segmented"
    /\ UNCHANGED <<files, ci, analyses, df_source, df_target, src_args, tgt_args, rc_args,
                   ri, generated_audio, selected_freesound_ids, loaded_audio_files,
                   decodes, last_call, last_write, wcount, calls_left, exc>>
    /\ UNCHANGED <<matches, fails_at>>

AnalyzeSoundBeats ==
    /\ pc = "segment"
    /\ files[TargetPath] <= MaxLen
    /\ \E frame_size \in {<<>>, <<DefaultFrameSize>>},
          beats \in BeatSeqs(0, 2 * files[TargetPath], MaxBeats) :
          /\ seg_call' = [kind |-> "analyze_sound", frame_size |-> frame_size,
                          sync_with_beats |-> TRUE, beats |-> beats]
          /\ seg_result' = AnalyzeSound(TargetPath, frame_size, TargetPath, TRUE, beats)
    /\ pc' = "segmented"
    /\ UNCHANGED <<files, ci, analyses, df_source, df_target, src_args, tgt_args, rc_args,
                   ri, generated_audio, selected_freesound_ids, loaded_audio_files,
                   decodes, last_call, last_write, wcount, calls_left, exc>>
    /\ UNCHANGED <<matches, fails_at>>

SegNext == AnalyzeSoundFixed \/ AnalyzeSoundBeats

SegSpec == SegInit /\ [][SegNext]_vars

----------------------------------------------------------------------------
(* analyze_collection and analyze_target, as main.py calls them *)

\* the metadata table df: one row per downloaded sound
Collection == << [freesound_id |-> "101", path |-> "a"],
                 [freesound_id |-> "102", path |-> "b"] >>

\* lengths of the two source files: empty, one frame, several frames
SrcLensA == {0, 3, MaxSrcLen}
SrcLensB == {0, MaxSrcLen - 1}
SrcFrameSizes == {<<2>>, <<3>>}
TgtFrameSizes == {<<2>>, <<3>>}

Init ==
    /\ Idle
    /\ pc = "start"
    /\ calls_left = 1
    /\ fails_at = NoFailure
    /\ \E la \in SrcLensA, lb \in SrcLensB, lt \in 0..MaxTgtLen :
          files = [p \in Paths |-> CASE p = "a" -> la [] p = "b" -> lb [] OTHER -> lt]

\* analyze_collection, lines 73-74: the loop is entered
AnalyzeCollectionBegin ==
    /\ pc = "start"
    /\ \E frame_size \in SrcFrameSizes :
          src_args' = [kind |-> "analyze_collection", frame_size |-> frame_size]
    /\ pc' = "collection"
    /\ ci' = 0
    /\ analyses' = <<>>
    /\ UNCHANGED <<files, seg_call, seg_result, df_source, df_target, tgt_args, rc_args,
                   ri, generated_audio, selected_freesound_ids, loaded_audio_files,
                   decodes, last_call, last_write, wcount, calls_left, exc>>
    /\ UNCHANGED <<matches, fails_at>>

\* a batch that keeps the frames a failing file had produced before it failed
AnalysesAfterPartial(list, out) == list \o out.analysis_output

\* `analyses` after the try block of lines 77-83: extended by the returned
\* frames, left alone when analyze_sound raised RuntimeError
AnalysesAfter(list, out) == IF out.exc = "none" THEN list \o out.rows ELSE list

\* analyze_collection, lines 75-83: one iteration of the loop
AnalyzeCollectionIter ==
    /\ pc = "collection"
    /\ ci < Len(Collection)
    /\ LET sound == Collection[ci + 1]
           out   == AnalyzeSound(sound.path, src_args.frame_size,
                                 sound.freesound_id, FALSE, <<>>)
       IN  IF out.exc \in {"none", "RuntimeError"}
           THEN /\ analyses' = AnalysesAfter(analyses, out)
                /\ ci' = ci + 1
                /\ UNCHANGED <<pc, exc>>
           ELSE /\ pc' = "raised"
                /\ exc' = out.exc
                /\ UNCHANGED <<analyses, ci>>
    /\ UNCHANGED <<files, seg_call, seg_result, df_source, df_target, src_args, tgt_args,
                   rc_args, ri, generated_audio, selected_freesound_ids,
                   loaded_audio_files, decodes, last_call, last_write, wcount,
                   calls_left>>
    /\ UNCHANGED <<matches, fails_at>>

\* analyze_collection, lines 84-89: the table is built and returned
AnalyzeCollectionEnd ==
    /\ pc = "collection"
    /\ ci = Len(Collection)
    /\ df_source' = analyses
    /\ pc' = "source_done"
    /\ UNCHANGED <<files, seg_call, seg_result, ci, analyses, df_target, src_args,
                   tgt_args, rc_args, ri, generated_audio, selected_freesound_ids,
                   loaded_audio_files, decodes, last_call, last_write, wcount,
                   calls_left, exc>>
    /\ UNCHANGED <<matches, fails_at>>

\* analyze_target(audio_path, frame_size, sync_with_beats, output_csv)
AnalyzeTargetCall(frame_size, sync_with_beats, beats) ==
    /\ pc = "source_done"
    /\ tgt_args' = [kind |-> "analyze_target", frame_size |-> frame_size,
                    sync_with_beats |-> sync_with_beats]
    /\ LET out == AnalyzeSound(TargetPath, frame_size, TargetPath, sync_with_beats, beats)
       IN  IF out.exc = "none"
           THEN /\ df_target' = out.rows
                /\ pc' = "analyzed"
                /\ UNCHANGED exc
           ELSE /\ pc' = "raised"
                /\ exc' = out.exc
                /\ UNCHANGED df_target
    /\ UNCHANGED <<files, seg_call, seg_result, ci, analyses, df_source, src_args,
                   rc_args, ri, generated_audio, selected_freesound_ids,
                   loaded_audio_files, decodes, last_call, last_write, wcount,
                   calls_left>>
    /\ UNCHANGED <<matches, fails_at>>

AnalyzeTargetFixed ==
    \E frame_size \in TgtFrameSizes : AnalyzeTargetCall(frame_size, FALSE, <<>>)

AnalyzeTargetBeats ==
    \E frame_size \in {<<DefaultFrameSize>>},
       beats \in BeatSeqs(0, 2 * files[TargetPath], MaxBeats) :
       AnalyzeTargetCall(frame_size, TRUE, beats)

----------------------------------------------------------------------------
(* mosaicer.py *)

\* similarity_features, lines 16-26
similarity_features ==
    MfccNames \o <<"loudness", "spectral_centroid", "danceability", "flux", "hfc",
                   "spectral_complexity", "pitch_salience", "intensity">>

\* the features a caller can pass instead: those the analysis computes
ComputedFeatures == MfccNames \o <<"loudness">>

FeatureArgs == {similarity_features, ComputedFeatures}
ChoiceArgs == {"random", "best", "other"}

MetaColumns == {"freesound_id", "id", "path", "start_sample", "end_sample"}

\* columns of pd.DataFrame(rows): the keys of the row dictionaries
TableColumns(df) == IF Len(df) = 0 THEN {} ELSE MetaColumns \cup DOMAIN df[1].feat

Elems(seq) == {seq[k] : k \in 1..Len(seq)}

\* get_audio_file_segment that decodes the file on every call
GetAudioFileSegmentNoCache(cache, dec, file_path, start_sample, n_samples) ==
    [cache    |-> [p \in DOMAIN cache \cup {file_path} |->
                      IF p = file_path THEN Decode(file_path) ELSE cache[p]],
     decodes  |-> [dec EXCEPT ![file_path] = @ + 1],
     segment  |-> PySlice(Decode(file_path), start_sample, start_sample + n_samples)]

\* get_audio_file_segment that slices from the start of the file
GetAudioFileSegmentFromZero(cache, dec, file_path, start_sample, n_samples) ==
    LET hit   == file_path \in DOMAIN cache
        audio == IF hit THEN cache[file_path] ELSE Decode(file_path)
    IN  [cache    |-> IF hit THEN cache
                      ELSE [p \in DOMAIN cache \cup {file_path} |->
                               IF p = file_path THEN audio ELSE cache[p]],
         decodes  |-> IF hit THEN dec ELSE [dec EXCEPT ![file_path] = @ + 1],
         segment  |-> PySlice(audio, 0, n_samples)]

\* get_audio_file_segment that returns one sample more than asked for
GetAudioFileSegmentLong(cache, dec, file_path, start_sample, n_samples) ==
    LET hit   == file_path \in DOMAIN cache
        audio == IF hit THEN cache[file_path] ELSE Decode(file_path)
    IN  [cache    |-> IF hit THEN cache
                      ELSE [p \in DOMAIN cache \cup {file_path} |->
                               IF p = file_path THEN audio ELSE cache[p]],
         decodes  |-> IF hit THEN dec ELSE [dec EXCEPT ![file_path] = @ + 1],
         segment  |-> PySlice(audio, start_sample, start_sample + n_samples + 1)]

\* get_audio_file_segment, lines 39-45: the cache after the call, the number of
\* MonoLoader runs per path, and the slice returned
GetAudioFileSegment(cache, dec, file_path, start_sample, n_samples) ==
    LET hit   == file_path \in DOMAIN cache
        audio == IF hit THEN cache[file_path] ELSE Decode(file_path)
    IN  [cache    |-> IF hit THEN cache
                      ELSE [p \in DOMAIN cache \cup {file_path} |->
                               IF p = file_path THEN audio ELSE cache[p]],
         decodes  |-> IF hit THEN dec ELSE [dec EXCEPT ![file_path] = @ + 1],
         segment  |-> PySlice(audio, start_sample, start_sample + n_samples)]

\* squared Euclidean distance over the feature columns (same order as distance)
SqDist(q, r, features) ==
    LET RECURSIVE Acc(_)
        Acc(k) == IF k = 0 THEN 0
                  ELSE Acc(k - 1) +
                       (q[features[k]] - r[features[k]]) * (q[features[k]] - r[features[k]])
    IN  Acc(Len(features))

\* kneighbors: the row numbers of the n nearest rows, nearest first; equal
\* distances in row order
NearestRows(query, df, n, features) ==
    LET d(i) == SqDist(query, df[i].feat, features)
        before(j, i) == d(j) < d(i) \/ (d(j) = d(i) /\ j < i)
        rank(i) == Cardinality({j \in 1..Len(df) : before(j, i)})
    IN  [k \in 1..n |-> CHOOSE i \in 1..Len(df) : rank(i) = k - 1]

\* find_similar_frames, lines 58-63: [exc, frames]
FindSimilarFrames(query_frame, df_source_frames, n, features) ==
    IF ~(Elems(features) \subseteq TableColumns(df_source_frames))
    THEN [exc |-> "KeyError", frames |-> <<>>]
    ELSE IF n > Len(df_source_frames)
    THEN [exc |-> "ValueError", frames |-> <<>>]  \* n_neighbors <= n_samples_fit
    ELSE [exc |-> "none",
          frames |-> LET idx == NearestRows(query_frame, df_source_frames, n, features)
                     IN  [k \in 1..n |-> df_source_frames[idx[k]]]]

NoFrame == [id |-> "none"]

\* a matcher whose "random" policy draws from the whole source table
ChooseFrameFromSourceCollectionAnyRow(target_frame, df_source_frames, features, choice) ==
    IF ~(Elems(features) \subseteq (MetaColumns \cup DOMAIN target_frame.feat))
    THEN {[exc |-> "KeyError", frame |-> NoFrame, similar |-> <<>>]}
    ELSE LET found == FindSimilarFrames(target_frame.feat, df_source_frames,
                                        n_neighbours_to_find, features)
         IN  IF found.exc # "none"
             THEN {[exc |-> found.exc, frame |-> NoFrame, similar |-> <<>>]}
             ELSE IF choice = "random"
             THEN {[exc |-> "none", frame |-> df_source_frames[k],
                    similar |-> found.frames] : k \in 1..Len(df_source_frames)}
             ELSE IF choice = "best"
             THEN {[exc |-> "none", frame |-> found.frames[1], similar |-> found.frames]}
             ELSE {[exc |-> "ValueError", frame |-> NoFrame, similar |-> found.frames]}

\* choose_frame_from_source_collection, lines 78-89: the set of outcomes
\* [exc, frame, similar] one call can have
ChooseFrameFromSourceCollection(target_frame, df_source_frames, features, choice) ==
    IF ~(Elems(features) \subseteq (MetaColumns \cup DOMAIN target_frame.feat))
    THEN {[exc |-> "KeyError", frame |-> NoFrame, similar |-> <<>>]}
    ELSE LET found == FindSimilarFrames(target_frame.feat, df_source_frames,
                                        n_neighbours_to_find, features)
         IN  IF found.exc # "none"
             THEN {[exc |-> found.exc, frame |-> NoFrame, similar |-> <<>>]}
             ELSE IF choice = "random"
             THEN {[exc |-> "none", frame |-> found.frames[k], similar |-> found.frames] :
                      k \in 1..Len(found.frames)}
             ELSE IF choice = "best"
             THEN {[exc |-> "none", frame |-> found.frames[1], similar |-> found.frames]}
             ELSE {[exc |-> "ValueError", frame |-> NoFrame, similar |-> found.frames]}

\* generated_audio[start : start + len(segment)] = segment, as numpy assigns:
\* the left slice is clamped to the buffer, a one-sample segment broadcasts
\* into it, any other length mismatch raises
AssignSlice(buf, start, segment) ==
    LET lo == SliceLo(Len(buf), start)
        n  == SliceLen(Len(buf), start, start + Len(segment))
    IN  IF n = Len(segment) \/ Len(segment) = 1
        THEN [exc |-> "none", count |-> n,
              buf |-> [k \in 1..Len(buf) |->
                         IF k > lo /\ k <= lo + n
                         THEN segment[IF Len(segment) = 1 THEN 1 ELSE k - lo]
                         ELSE buf[k]]]
        ELSE [exc |-> "ValueError", count |-> 0, buf |-> buf]

\* an output buffer sized by the frames instead of by the recording
SumOfFrameLengths(df) ==
    LET RECURSIVE Acc(_)
        Acc(k) == IF k = 0 THEN 0
                  ELSE Acc(k - 1) + (df[k].end_sample - df[k].start_sample)
    IN  Acc(Len(df))

\* total_length_target_audio, lines 107-109: the target file is decoded again
TotalLengthTargetAudio(df) == Len(Decode(df[1].path))

\* plot_waveform_with_frames(audio_path, df_target), as main calls it after
\* analyze_target: the file is decoded again, a line is drawn at every
\* df_target["start_sample"] and the x axis ends at min(len(audio), 4 s);
\* a table without rows has no columns, so the column lookup raises
PlotWaveformWithFrames ==
    /\ pc = "analyzed"
    /\ IF "start_sample" \notin TableColumns(df_target)
       THEN /\ pc' = "raised"
            /\ exc' = "KeyError"
            /\ last_call' = [kind |-> "plot_waveform_with_frames"]
       ELSE /\ pc' = "plotted"
            /\ last_call' = [kind   |-> "plot_waveform_with_frames",
                             vlines |-> [k \in 1..Len(df_target) |->
                                           df_target[k].start_sample],
                             xmax   |-> Min(Len(Decode(TargetPath)), ExampleLen)]
            /\ UNCHANGED exc
    /\ UNCHANGED <<files, seg_call, seg_result, ci, analyses, df_source, df_target,
                   src_args, tgt_args, rc_args, ri, generated_audio,
                   selected_freesound_ids, loaded_audio_files, decodes, last_write,
                   wcount, calls_left, matches, fails_at>>

\* reconstruct_audio, lines 107-111, called by main once the target has been
\* plotted; the zero-row branch is what the function does when a caller hands
\* it such a table, which main's own sequence never does
ReconstructBegin ==
    /\ pc = "plotted"
    /\ \E features \in FeatureArgs, choice \in ChoiceArgs :
          rc_args' = [kind |-> "reconstruct_audio", features |-> features,
                      choice |-> choice]
    /\ IF Len(df_target) = 0
       THEN \* df_target.iloc[0] on an empty table
            /\ pc' = "raised"
            /\ exc' = "IndexError"
            /\ UNCHANGED <<generated_audio, wcount>>
       ELSE /\ generated_audio' = [k \in 1..TotalLengthTargetAudio(df_target) |-> 0]
            /\ wcount' = [k \in 1..TotalLengthTargetAudio(df_target) |-> 0]
            /\ pc' = "mosaic"
            /\ UNCHANGED exc
    /\ ri' = 0
    /\ selected_freesound_ids' = <<>>
    /\ UNCHANGED <<files, seg_call, seg_result, ci, analyses, df_source, df_target,
                   src_args, tgt_args, loaded_audio_files, decodes, last_call,
                   last_write, calls_left>>
    /\ UNCHANGED <<matches, fails_at>>

\* reconstruct_audio, lines 114-130: one iteration of the loop
ReconstructIter ==
    /\ pc = "mosaic"
    /\ ri < Len(df_target)
    /\ LET target_frame == df_target[ri + 1]
       IN  \E m \in ChooseFrameFromSourceCollection(target_frame, df_source,
                                                   rc_args.features, rc_args.choice) :
             IF m.exc # "none"
             THEN /\ pc' = "raised"
                  /\ exc' = m.exc
                  /\ UNCHANGED <<ri, generated_audio, selected_freesound_ids,
                                 loaded_audio_files, decodes, last_call, last_write,
                                 wcount>>
             ELSE LET source_frame == m.frame
                      frame_length == target_frame.end_sample - target_frame.start_sample
                      got == GetAudioFileSegment(loaded_audio_files, decodes,
                                                 source_frame.path,
                                                 source_frame.start_sample, frame_length)
                      put == AssignSlice(generated_audio, target_frame.start_sample,
                                         got.segment)
                  IN  /\ selected_freesound_ids' =
                            Append(selected_freesound_ids, source_frame.freesound_id)
                      /\ loaded_audio_files' = got.cache
                      /\ decodes' = got.decodes
                      /\ last_call' = [kind |-> "get_audio_file_segment",
                                       file_path |-> source_frame.path,
                                       start_sample |-> source_frame.start_sample,
                                       n_samples |-> frame_length,
                                       hit |-> source_frame.path \in DOMAIN loaded_audio_files,
                                       segment |-> got.segment]
                      /\ IF put.exc # "none"
                         THEN /\ pc' = "raised"
                              /\ exc' = put.exc
                              /\ UNCHANGED <<ri, generated_audio, last_write, wcount>>
                         ELSE /\ generated_audio' = put.buf
                              /\ last_write' = [kind |-> "write", row |-> ri,
                                                start |-> target_frame.start_sample,
                                                count |-> put.count,
                                                segment |-> got.segment,
                                                source |-> source_frame]
                              /\ wcount' = [k \in 1..Len(wcount) |->
                                              IF k > target_frame.start_sample
                                                 /\ k <= target_frame.start_sample + put.count
                                              THEN wcount[k] + 1 ELSE wcount[k]]
                              /\ ri' = ri + 1
                              /\ UNCHANGED <<pc, exc>>
    /\ UNCHANGED <<files, seg_call, seg_result, ci, analyses, df_source, df_target,
                   src_args, tgt_args, rc_args, calls_left>>
    /\ UNCHANGED <<matches, fails_at>>

\* reconstruct_audio, lines 132-136: the buffer is written out and returned
ReconstructEnd ==
    /\ pc = "mosaic"
    /\ ri = Len(df_target)
    /\ pc' = "done"
    /\ UNCHANGED <<files, seg_call, seg_result, ci, analyses, df_source, df_target,
                   src_args, tgt_args, rc_args, ri, generated_audio,
                   selected_freesound_ids, loaded_audio_files, decodes, last_call,
                   last_write, wcount, calls_left, exc>>
    /\ UNCHANGED <<matches, fails_at>>

\* a direct call get_audio_file_segment(file_path, start_sample, n_samples): the
\* only call of a fresh process ("start"), or one of a series ("cache")
GetSegmentCall ==
    /\ pc \in {"start", "cache"}
    /\ calls_left > 0
    /\ \E file_path \in SourcePaths, start_sample \in 0..(MaxSrcLen + 1),
          n_samples \in 0..MaxSegLen :
          LET got == GetAudioFileSegment(loaded_audio_files, decodes, file_path,
                                         start_sample, n_samples)
          IN  /\ loaded_audio_files' = got.cache
              /\ decodes' = got.decodes
              /\ last_call' = [kind |-> "get_audio_file_segment",
                               file_path |-> file_path,
                               start_sample |-> start_sample,
                               n_samples |-> n_samples,
                               hit |-> file_path \in DOMAIN loaded_audio_files,
                               segment |-> got.segment]
    /\ calls_left' = calls_left - 1
    /\ pc' = IF pc = "start" THEN "called" ELSE pc
    /\ UNCHANGED <<files, seg_call, seg_result, ci, analyses, df_source, df_target,
                   src_args, tgt_args, rc_args, ri, generated_audio,
                   selected_freesound_ids, last_write, wcount, exc>>
    /\ UNCHANGED <<matches, fails_at>>

Next ==
    \/ GetSegmentCall
    \/ AnalyzeCollectionBegin
    \/ AnalyzeCollectionIter
    \/ AnalyzeCollectionEnd
    \/ AnalyzeTargetFixed
    \/ AnalyzeTargetBeats
    \/ PlotWaveformWithFrames
    \/ ReconstructBegin
    \/ ReconstructIter
    \/ ReconstructEnd

Spec == Init /\ [][Next]_vars

\* a process that only calls get_audio_file_segment, on files of any length
CacheInit ==
    /\ Idle
    /\ pc = "cache"
    /\ calls_left = MaxCalls
    /\ fails_at = NoFailure
    /\ \E la \in {0, MaxSrcLen - 1}, lb \in {3, MaxSrcLen} :
          files = [p \in Paths |-> CASE p = "a" -> la [] p = "b" -> lb [] OTHER -> 0]

CacheSpec == CacheInit /\ [][GetSegmentCall]_vars

----------------------------------------------------------------------------
(* Direct calls of choose_frame_from_source_collection on analysed tables *)

MatchInit ==
    /\ Idle
    /\ pc = "start"
    /\ calls_left = 0
    /\ fails_at = NoFailure
    /\ \E la \in {3, MaxSrcLen + 2}, lt \in {0, MaxTgtLen} :
          files = [p \in Paths |->
                     CASE p = "a" -> la [] p = "b" -> MaxSrcLen - 1 [] OTHER -> lt]

\* choose_frame_from_source_collection(target_frame, df_source, features, choice),
\* called once, then again with the same arguments
MatchCall ==
    /\ pc = "analyzed"
    /\ Len(matches) < MaxMatches
    /\ \E r \in 1..Len(df_target), features \in FeatureArgs, choice \in ChoiceArgs :
          /\ matches # <<>> =>
                /\ matches[1].row = r
                /\ matches[1].features = features
                /\ matches[1].choice = choice
          /\ \E m \in ChooseFrameFromSourceCollection(df_target[r], df_source,
                                                      features, choice) :
                matches' = Append(matches,
                                  [row |-> r, features |-> features, choice |-> choice,
                                   exc |-> m.exc, frame |-> m.frame,
                                   similar |-> m.similar])
    /\ UNCHANGED <<files, pc, seg_call, seg_result, ci, analyses, df_source, df_target,
                   src_args, tgt_args, rc_args, ri, generated_audio,
                   selected_freesound_ids, loaded_audio_files, decodes, last_call,
                   last_write, wcount, calls_left, fails_at, exc>>

MatchNext ==
    \/ AnalyzeCollectionBegin
    \/ AnalyzeCollectionIter
    \/ AnalyzeCollectionEnd
    \/ AnalyzeTargetFixed
    \/ MatchCall

MatchSpec == MatchInit /\ [][MatchNext]_vars

----------------------------------------------------------------------------
(* analyze_collection on a collection some of whose files fail *)

FailurePoints == (-1)..MaxFailAt

CollInit ==
    /\ Idle
    /\ pc = "start"
    /\ calls_left = 0
    /\ \E la \in SrcLensA, lb \in SrcLensB :
          files = [p \in Paths |-> CASE p = "a" -> la [] p = "b" -> lb [] OTHER -> 0]
    /\ \E fa \in FailurePoints, fb \in FailurePoints :
          fails_at = [p \in Paths |-> CASE p = "a" -> fa [] p = "b" -> fb [] OTHER -> -1]

CollNext ==
    \/ AnalyzeCollectionBegin
    \/ AnalyzeCollectionIter
    \/ AnalyzeCollectionEnd

CollSpec == CollInit /\ [][CollNext]_vars

----------------------------------------------------------------------------
(* Claims about segmentation, checked under SegSpec *)

SegCalled == pc = "segmented"
SegFixed == SegCalled /\ ~seg_call.sync_with_beats
SegRows == seg_result.rows
SegL == files[TargetPath]
RowLen(r) == r.end_sample - r.start_sample

\* C1: fixed-size segmentation of L samples with a positive frame_size, F being
\* frame_size made even, emits floor(L/F)-1 or floor(L/F) frames, each of
\* length exactly F, none ending after sample L.
C1_FixedSizeCount ==
    (SegFixed /\ seg_call.frame_size # <<>>) =>
        LET fs == seg_call.frame_size[1]
            F  == IF fs % 2 = 1 THEN fs + 1 ELSE fs
        IN  /\ Len(SegRows) \in {(SegL \div F) - 1, SegL \div F}
            /\ \A k \in 1..Len(SegRows) :
                  /\ RowLen(SegRows[k]) = F
                  /\ SegRows[k].end_sample <= SegL

\* C1 witness: an odd frame_size, a length that is a multiple of the even
\* frame size, and floor(L/F)-1 >= 2 frames emitted
C1_Witness ==
    /\ SegFixed
    /\ seg_call.frame_size # <<>>
    /\ seg_call.frame_size[1] % 2 = 1
    /\ SegL % (seg_call.frame_size[1] + 1) = 0
    /\ Len(SegRows) >= 2
    /\ Len(SegRows) = (SegL \div (seg_call.frame_size[1] + 1)) - 1

ExampleCall ==
    /\ SegFixed
    /\ SegL = ExampleLen
    /\ seg_call.frame_size = <<DefaultFrameSize>>

ExampleShape ==
    /\ \A k \in 1..Len(SegRows) : RowLen(SegRows[k]) = DefaultFrameSize
    /\ \A j, k \in 1..Len(SegRows) :
          j < k => SegRows[j].end_sample <= SegRows[k].start_sample
    /\ Len(SegRows) > 0 => SegRows[Len(SegRows)].end_sample <= ExampleLen

\* C2 as stated: 176400 samples cut with frame_size 8192 give exactly 20
\* frames of length 8192, none overlapping, the last ending at or before 176400.
C2_Original == ExampleCall => (Len(SegRows) = 20 /\ ExampleShape)

\* C2 amended: 176400 samples cut with frame_size 8192 give exactly 21
\* frames (floor(176400/8192)) of length 8192, none overlapping, the last
\* ending at or before 176400.
C2_ExampleFrames == ExampleCall => (Len(SegRows) = 21 /\ ExampleShape)

\* C2 witness: the example call has returned its 21 frames
C2_Witness == ExampleCall /\ seg_result.exc = "none" /\ Len(SegRows) = 21

\* C3 as stated: with frame_size=None a recording of L > 0 samples yields
\* exactly one frame, covering the recording from sample 0 to sample L.
C3_WholeFileOneFrame ==
    (SegFixed /\ seg_call.frame_size = <<>> /\ SegL > 0) =>
        /\ seg_result.exc = "none"
        /\ Len(SegRows) = 1
        /\ SegRows[1].start_sample = 0
        /\ SegRows[1].end_sample = SegL

\* C5: the frames of one recording, in emission order, have
\* 0 <= start_sample < end_sample, non-decreasing starts, no overlap, each
\* frame ending where the next starts, and ids "{audio_id}_f{i}", i = 0, 1, ...
C5_FramesContiguous ==
    SegCalled =>
        /\ \A k \in 1..Len(SegRows) :
              /\ 0 <= SegRows[k].start_sample
              /\ SegRows[k].start_sample < SegRows[k].end_sample
              /\ SegRows[k].id = <<TargetPath, "_f", k - 1>>
        /\ \A k \in 1..(Len(SegRows) - 1) :
              /\ SegRows[k].start_sample <= SegRows[k + 1].start_sample
              /\ SegRows[k].end_sample = SegRows[k + 1].start_sample
        /\ \A j, k \in 1..Len(SegRows) :
              j < k => SegRows[j].end_sample <= SegRows[k].start_sample

\* C5 witness: a beat-synced call that returned two frames of different lengths
C5_Witness ==
    /\ SegCalled
    /\ seg_call.sync_with_beats
    /\ Len(SegRows) = 2
    /\ RowLen(SegRows[1]) # RowLen(SegRows[2])

----------------------------------------------------------------------------
(* Claims about the cache and the reconstruction *)

Reconstructing == rc_args.kind = "reconstruct_audio"
Wrote == Reconstructing /\ last_write.kind = "write"
SegmentCalled == last_call.kind = "get_audio_file_segment"
\* samples [a, b) of the file at path, read from the file itself
FileSamples(path, a, b) == [k \in 1..(b - a) |-> SampleAt(path, a + k - 1)]

Plotted == last_call.kind = "plot_waveform_with_frames"

\* C4 as stated: a zero-frame recording is a valid result for every caller:
\* analyze_collection goes on without raising, plot_waveform_with_frames
\* draws a zero-row target table without an error, and reconstruct_audio on
\* a zero-row target table ends without an error with an all-silent buffer
\* of the target's length.
C4_ZeroFramesAccepted ==
    /\ (pc \in {"collection", "source_done", "analyzed", "plotted"}) => exc = "none"
    /\ (Plotted /\ Len(df_target) = 0) => (exc = "none" /\ pc # "raised")
    /\ (Reconstructing /\ Len(df_target) = 0) =>
          /\ exc = "none"
          /\ Len(generated_audio) = files[TargetPath]
          /\ \A k \in 1..Len(generated_audio) : generated_audio[k] = 0

CacheConsistent ==
    \A p \in Paths :
        /\ decodes[p] <= 1
        /\ (p \in DOMAIN loaded_audio_files) <=> (decodes[p] = 1)
        /\ p \in DOMAIN loaded_audio_files => loaded_audio_files[p] = Decode(p)

CacheStep ==
    /\ \A p \in DOMAIN loaded_audio_files :
          /\ p \in DOMAIN loaded_audio_files'
          /\ loaded_audio_files'[p] = loaded_audio_files[p]
    /\ \A p \in Paths :
          decodes'[p] =
              IF last_call'.file_path = p /\ p \notin DOMAIN loaded_audio_files
              THEN decodes[p] + 1 ELSE decodes[p]
    /\ last_call'.hit <=> (last_call'.file_path \in DOMAIN loaded_audio_files)
    /\ DOMAIN loaded_audio_files' = DOMAIN loaded_audio_files \cup {last_call'.file_path}

\* C6: over any sequence of get_audio_file_segment calls each path is decoded
\* at most once: the first call for a path decodes the file and stores it,
\* later calls for it decode nothing, and a stored entry is never removed
\* or replaced.
C6_DecodedAtMostOnce == [](CacheConsistent) /\ [][CacheStep]_vars

\* C6 witness: a third call, served from the cache, after the path was decoded once
C6_Witness ==
    /\ pc = "cache"
    /\ calls_left = 0
    /\ SegmentCalled
    /\ last_call.hit
    /\ decodes[last_call.file_path] = 1
    /\ Len(loaded_audio_files[last_call.file_path]) > 0

\* C7: with 0 <= start_sample <= B the call returns exactly
\* min(n, B - start_sample) samples, buffer[start_sample : start_sample + count],
\* and reconstruct_audio writes exactly those samples at the target frame's
\* start_sample, never more than the source buffer supplied.
C7_TruncatedSlice ==
    /\ (SegmentCalled /\ last_call.start_sample <= files[last_call.file_path]) =>
          LET B == files[last_call.file_path]
              count == Min(last_call.n_samples, B - last_call.start_sample)
          IN  /\ Len(last_call.segment) = count
              /\ last_call.segment =
                    FileSamples(last_call.file_path, last_call.start_sample,
                                last_call.start_sample + count)
    /\ (Wrote /\ exc = "none") =>
          /\ last_write.segment = last_call.segment
          /\ last_write.count = Len(last_call.segment)
          /\ last_write.start = df_target[last_write.row + 1].start_sample
          /\ last_write.count <=
                files[last_write.source.path] - last_write.source.start_sample
          /\ \A k \in 1..last_write.count :
                generated_audio[last_write.start + k] = last_call.segment[k]

\* C7 witness: a frame written short because the source file ended
C7_Witness ==
    /\ Wrote
    /\ exc = "none"
    /\ last_write.count > 0
    /\ last_write.count < last_call.n_samples
    /\ last_write.count =
          files[last_write.source.path] - last_write.source.start_sample

InTargetFrame(k) ==
    \E r \in 1..Len(df_target) :
        df_target[r].start_sample < k /\ k <= df_target[r].end_sample

\* C8: during reconstruct_audio the output buffer has the target recording's
\* full length, each index is written at most once, each write stays inside
\* its target row's [start_sample, end_sample), and at the end every index
\* outside all target frames still holds the initial zero.
C8_OutputBuffer ==
    (Reconstructing /\ pc \in {"mosaic", "done"}) =>
        /\ Len(generated_audio) = files[TargetPath]
        /\ \A k \in 1..Len(wcount) : wcount[k] <= 1
        /\ last_write.kind = "write" =>
              /\ df_target[last_write.row + 1].start_sample = last_write.start
              /\ last_write.start + last_write.count
                    <= df_target[last_write.row + 1].end_sample
        /\ pc = "done" =>
              \A k \in 1..Len(generated_audio) :
                  ~InTargetFrame(k) => (generated_audio[k] = 0 /\ wcount[k] = 0)

\* C8 witness: a finished reconstruction of two or more frames with a silent tail
C8_Witness ==
    /\ Reconstructing
    /\ pc = "done"
    /\ Len(df_target) >= 2
    /\ df_target[Len(df_target)].end_sample < Len(generated_audio)
    /\ \E k \in 1..Len(generated_audio) : generated_audio[k] # 0
    /\ generated_audio[Len(generated_audio)] = 0

SourceRange(f) == FileSamples(f.path, f.start_sample, f.end_sample)
TargetLenOfWrite == RowLen(df_target[last_write.row + 1])

\* C9 as stated: the segment copied for a target frame is exactly samples
\* [source.start_sample, source.end_sample) of the chosen source frame's file.
C9_Original ==
    (Wrote /\ exc = "none") => last_write.segment = SourceRange(last_write.source)

\* C9 amended: the segment copied for a target frame starts at the chosen
\* source frame's start_sample and has the target frame's length, cut short
\* at the end of the source file; it is the source frame's own range
\* [source.start_sample, source.end_sample) exactly when the two frames have
\* the same length.
C9_CopiedSegment ==
    (Wrote /\ exc = "none") =>
        LET src == last_write.source
            n   == Min(TargetLenOfWrite, files[src.path] - src.start_sample)
        IN  /\ last_write.segment =
                  FileSamples(src.path, src.start_sample, src.start_sample + n)
            /\ (TargetLenOfWrite = RowLen(src)) <=>
                  (last_write.segment = SourceRange(src))

\* C9 witness: a target frame longer than the source frame chosen for it
C9_Witness ==
    /\ Wrote
    /\ exc = "none"
    /\ TargetLenOfWrite > RowLen(last_write.source)
    /\ Len(last_write.segment) > RowLen(last_write.source)

\* C10 as stated: for every non-empty source table (features and choice being
\* valid) choose_frame_from_source_collection returns a frame of the table and
\* never fails; from a one-row table, "best" returns that row.
C10_NonEmptySourceMatches ==
    (/\ Reconstructing
     /\ Elems(rc_args.features) \subseteq AnalysisColumns
     /\ rc_args.choice \in {"random", "best"}
     /\ Len(df_source) >= 1
     /\ Len(df_target) >= 1) =>
        /\ exc = "none"
        /\ last_write.kind = "write" =>
              \E r \in 1..Len(df_source) : df_source[r] = last_write.source
        /\ (pc = "done" /\ Len(df_source) = 1 /\ rc_args.choice = "best") =>
              last_write.source = df_source[1]

----------------------------------------------------------------------------
(* Claims about matching, checked under MatchSpec *)

\* the query of a recorded match, and its distance to a source row
MatchQuery(m) == df_target[m.row].feat
MatchDist(m, r) == SqDist(MatchQuery(m), r.feat, m.features)

\* `similar` is a list of k nearest rows of df_source for the match's query:
\* n_neighbours_to_find distinct rows, nearest first, no other row nearer
IsTopK(m) ==
    /\ Len(m.similar) = n_neighbours_to_find
    /\ \A k \in 1..Len(m.similar) : m.similar[k] \in Elems(df_source)
    /\ \A j, k \in 1..Len(m.similar) : j # k => m.similar[j].id # m.similar[k].id
    /\ \A k \in 1..(Len(m.similar) - 1) :
          MatchDist(m, m.similar[k]) <= MatchDist(m, m.similar[k + 1])
    /\ \A r \in Elems(df_source) \ Elems(m.similar) :
          MatchDist(m, r) >= MatchDist(m, m.similar[Len(m.similar)])

\* C11: the frame a match returns is one of the k nearest rows found for its
\* query, never a row outside that list; with "best" it is the first, nearest
\* row, and repeating the match returns the same frame; with "random"
\* repeated matches draw from one and the same top-k list; any other choice
\* ends in an error and returns no frame.
C11_ChosenAmongNearest ==
    \A i \in 1..Len(matches) :
        LET m == matches[i]
        IN  /\ m.exc = "none" =>
                  /\ m.choice \in {"random", "best"}
                  /\ IsTopK(m)
                  /\ m.frame \in Elems(m.similar)
                  /\ m.choice = "best" =>
                        /\ m.frame = m.similar[1]
                        /\ \A r \in Elems(df_source) :
                              MatchDist(m, m.frame) <= MatchDist(m, r)
            /\ m.choice \notin {"random", "best"} =>
                  /\ m.exc # "none"
                  /\ m.frame = NoFrame
            /\ \A j \in 1..Len(matches) :
                  /\ matches[j].exc = m.exc
                  /\ m.exc = "none" => matches[j].similar = m.similar
                  /\ m.choice = "best" => matches[j].frame = m.frame

\* C11 witness: the same query matched twice with "random" against a table of
\* more than k rows, two different frames of the one top-k list returned
C11_Witness ==
    /\ Len(matches) = 2
    /\ matches[1].choice = "random"
    /\ matches[1].exc = "none"
    /\ matches[2].exc = "none"
    /\ matches[1].frame # matches[2].frame
    /\ matches[1].frame \in Elems(matches[2].similar)
    /\ Len(df_source) > n_neighbours_to_find
    /\ \E r \in Elems(df_source) : r \notin Elems(matches[1].similar)

----------------------------------------------------------------------------
(* Claim about the feature schema, checked under Spec *)

\* C12 as stated: every row produced by analysis carries every name of the
\* default similarity_features list, so reconstruct_audio called with the
\* default features never fails on a missing feature.
C12_FullSchema ==
    /\ \A r \in Elems(analyses) \cup Elems(df_source) \cup Elems(df_target) :
          Elems(similarity_features) \subseteq DOMAIN r.feat
    /\ (Reconstructing /\ rc_args.features = similarity_features) =>
          exc # "KeyError"

----------------------------------------------------------------------------
(* Claims about batch analysis, checked under CollSpec *)

\* frames analyze_sound cuts from the file at path p with the batch's frame
\* size: one less than the number of starts 0, F, 2F, ... below its length
FramesOf(p) ==
    LET F == EffectiveFrameSize(src_args.frame_size, files[p])
    IN  IF files[p] = 0 THEN 0 ELSE (files[p] - 1) \div F

\* the analysis of the file at path p fails: it cannot be decoded, or the
\* extractor rejects one of its frames
Fails(p) == fails_at[p] = 0 \/ (fails_at[p] >= 1 /\ fails_at[p] <= FramesOf(p))

\* position of the file a row was cut from, in the collection
FileIndex(r) == CHOOSE i \in 1..Len(Collection) : Collection[i].path = r.path

\* the table being built, and the table returned
BatchTable == IF pc = "source_done" THEN df_source ELSE analyses

\* C13: a file whose analysis fails is skipped as a whole and the batch goes
\* on: the loop reaches every file and never aborts, the table holds no row
\* of a failing file, and it holds every frame of every other file visited,
\* once each, in collection order and frame order.
C13_FailingFilesSkipped ==
    /\ pc # "raised"
    /\ exc = "none"
    /\ pc = "source_done" => ci = Len(Collection)
    /\ pc \in {"collection", "source_done"} =>
          LET F == EffectiveFrameSize(src_args.frame_size, 0)
              T == BatchTable
          IN  /\ \A k \in 1..Len(T) :
                    /\ \E i \in 1..ci : Collection[i].path = T[k].path
                    /\ ~Fails(T[k].path)
              /\ \A i \in 1..ci :
                    ~Fails(Collection[i].path) =>
                        \A j \in 0..(FramesOf(Collection[i].path) - 1) :
                            Cardinality({k \in 1..Len(T) :
                                /\ T[k].path = Collection[i].path
                                /\ T[k].freesound_id = Collection[i].freesound_id
                                /\ T[k].id = <<Collection[i].freesound_id, "_f", j>>
                                /\ T[k].start_sample = j * F
                                /\ T[k].end_sample = (j + 1) * F}) = 1
              /\ \A k \in 1..(Len(T) - 1) :
                    \/ FileIndex(T[k]) < FileIndex(T[k + 1])
                    \/ /\ FileIndex(T[k]) = FileIndex(T[k + 1])
                       /\ T[k].start_sample < T[k + 1].start_sample

\* C13 witness: the first file fails on its second frame, the second file is
\* analysed in full, and the finished table holds the second file's frames only
C13_Witness ==
    /\ pc = "source_done"
    /\ fails_at["a"] = 2
    /\ FramesOf("a") >= 2
    /\ ~Fails("b")
    /\ FramesOf("b") >= 2
    /\ Len(df_source) = FramesOf("b")
    /\ \A k \in 1..Len(df_source) : df_source[k].path = "b"

====
